---- MODULE Spec2Model ----
(***************************************************************************)
(* Model of examples/opensensor-space/opensensor_space.py: the sensor      *)
(* reading cycle, the temperature compensator, the 15-minute window        *)
(* scheduler and the partitioned Parquet writer call of main().            *)
(*                                                                         *)
(* Time.  An instant is an integer number of ticks since 00:00:00 UTC of   *)
(* BaseDay; one second is TicksPerSec ticks, so an instant has a whole     *)
(* second part and a sub-second part, as time.time() and datetime.now()    *)
(* have.  Durations are ticks as well.                                     *)
(*                                                                         *)
(* Numbers.  A float that the program computes by a division is kept as    *)
(* an exact fraction [num, den]; a field of a row is Some(v) or None.      *)
(***************************************************************************)
EXTENDS Integers, Sequences, FiniteSets, TLC

\* ------------------------------------------------------------------ bounds
TicksPerSec == 2      \* resolution of the clock: ticks in one second
MaxCycles == 6        \* loop iterations explored in one run of Spec
MaxSensorCycles == 3  \* loop iterations explored in one run of SpecSensors
MaxHistoryCycles == 6 \* loop iterations explored in one run of SpecHistory
MaxLiveCycles == 5    \* loop iterations explored in one run of SpecLive
MaxJitter == 1        \* how often a read, a write or a sleep runs a tick long
MaxStalls == 1        \* how often a read blocks for StallSeconds
StallSeconds == 2000  \* how long a blocked read lasts

\* ------------------------------------------------------- program constants
GridMinutes == 15     \* the literal 15 of the boundary arithmetic
HistoryLen == 5       \* cpu_temps = [cpu_temp] * 5
FallbackCpuMilli == 40 * 1000   \* return 40.0, in thousandths of a degree
\* TEMP_COMPENSATION_FACTOR, default '2.25', as the fraction 9/4
TEMP_COMPENSATION_FACTOR == [num |-> 9, den |-> 4]
FactorNum == TEMP_COMPENSATION_FACTOR.num
FactorDen == TEMP_COMPENSATION_FACTOR.den
GasScale == 1000      \* gas_data.x / 1000.0
STATION_ID == "00000000-0000-0000-0000-000000000000"

\* --------------------------------------------------------------- utilities
Min(a, b) == IF a <= b THEN a ELSE b
Max(a, b) == IF a >= b THEN a ELSE b

None == <<>>
Some(v) == <<v>>
Frac(n, d) == [num |-> n, den |-> d]
FracEq(a, b) == a.num * b.den = b.num * a.den

RECURSIVE SumSeq(_)
SumSeq(s) == IF s = <<>> THEN 0 ELSE Head(s) + SumSeq(Tail(s))

\* ------------------------------------------------------------ civil time
SecPerDay == 24 * 60 * 60
GridSeconds == GridMinutes * 60
GridTicks == GridSeconds * TicksPerSec

\* days since 1970-01-01 of the proleptic Gregorian date y-m-d
DaysFromCivil(y, m, d) ==
    LET yy  == IF m <= 2 THEN y - 1 ELSE y
        era == yy \div 400
        yoe == yy - era * 400
        mp  == IF m > 2 THEN m - 3 ELSE m + 9
        doy == (153 * mp + 2) \div 5 + d - 1
        doe == yoe * 365 + yoe \div 4 - yoe \div 100 + doy
    IN  era * 146097 + doe - 719468

\* the date y-m-d of a day number (days since 1970-01-01)
CivilFromDays(z0) ==
    LET z   == z0 + 719468
        era == z \div 146097
        doe == z - era * 146097
        yoe == (doe - doe \div 1460 + doe \div 36524 - doe \div 146096) \div 365
        doy == doe - (365 * yoe + yoe \div 4 - yoe \div 100)
        mp  == (5 * doy + 2) \div 153
        d   == doy - (153 * mp + 2) \div 5 + 1
        m   == IF mp < 10 THEN mp + 3 ELSE mp - 9
        y   == yoe + era * 400 + (IF m <= 2 THEN 1 ELSE 0)
    IN  [year |-> y, month |-> m, day |-> d]

\* the runs start on the last day of a year, so that a window can cross
\* the hour, the day, the month and the year
BaseDay == DaysFromCivil(2024, 12, 31)

\* datetime.datetime.fromtimestamp(t, utc) / datetime.datetime.now(utc):
\* the UTC calendar fields of an instant; frac is the sub-second part
ToDatetime(t) ==
    LET secs == t \div TicksPerSec
        sod  == secs % SecPerDay
        ymd  == CivilFromDays(BaseDay + secs \div SecPerDay)
    IN  [year   |-> ymd.year, month |-> ymd.month, day |-> ymd.day,
         hour   |-> sod \div 3600,
         minute |-> (sod % 3600) \div 60,
         second |-> sod % 60,
         frac   |-> t % TicksPerSec]

\* the instant of a UTC datetime (the cast timestamp::TIMESTAMP of the
\* ISO string, and dt.timestamp())
FromDatetime(dt) ==
    ((DaysFromCivil(dt.year, dt.month, dt.day) - BaseDay) * SecPerDay
        + dt.hour * 3600 + dt.minute * 60 + dt.second) * TicksPerSec + dt.frac

\* an instant whose datetime has minute % 15 = 0 and second = 0 (the
\* sub-second part is not looked at)
OnGridSeconds(t) == (t \div TicksPerSec) % GridSeconds = 0

\* ------------------------------------------------ the window scheduler
\* main(), the first batch: seconds from `now` to the next 15-minute
\* boundary, or BATCH_DURATION when that is 0.  The result is in seconds.
FirstBatchDuration(now, batch_duration) ==
    LET dt == ToDatetime(now)
        minutes_to_add == GridMinutes - (dt.minute % GridMinutes)
        seconds_to_next_15min ==
            IF minutes_to_add = GridMinutes /\ dt.second = 0
            THEN 0
            ELSE (minutes_to_add * 60) - dt.second
    IN  IF seconds_to_next_15min > 0 THEN seconds_to_next_15min
        ELSE batch_duration

\* main(), after a flush: the next batch end
AdvanceWindow(end, batch_duration) ==
    LET e1 == end + batch_duration * TicksPerSec
        current_dt == ToDatetime(e1)
        minutes_to_add == GridMinutes - (current_dt.minute % GridMinutes)
    IN  IF minutes_to_add = GridMinutes /\ current_dt.second = 0
        THEN e1
        ELSE e1 + ((minutes_to_add * 60) - current_dt.second) * TicksPerSec

\* time_to_next_batch = max(0, next_batch_end - current_time)
TimeToNextBatchAbs(end, now) == IF end >= now THEN end - now ELSE now - end
TimeToNextBatch(end, now) == Max(0, end - now)

\* if current_time >= next_batch_end
FlushDueAfter(now, end) == now > end
FlushDue(now, end) == now >= end

\* sleep_time = min(READ_INTERVAL, time_to_next_batch), in ticks
SleepTimeWhole(read_interval, ttnb) == read_interval * TicksPerSec
SleepTime(read_interval, ttnb) == Min(read_interval * TicksPerSec, ttnb)

\* ------------------------------------------------------- partition names
\* the decimal digits of n, zero-padded to `width` (strftime %Y %m %d %H %M)
RECURSIVE Pad(_, _)
Pad(n, width) ==
    IF width = 0 THEN <<>> ELSE Append(Pad(n \div 10, width - 1), n % 10)

\* the decimal digits of n without padding (a hive partition value)
RECURSIVE Decimal(_)
Decimal(n) == IF n < 10 THEN <<n>> ELSE Append(Decimal(n \div 10), n % 10)

\* the number a digit string denotes
RECURSIVE DigitsValue(_)
DigitsValue(ds) ==
    IF ds = <<>> THEN 0
    ELSE 10 * DigitsValue(SubSeq(ds, 1, Len(ds) - 1)) + ds[Len(ds)]

\* main(), lines 214-224 and 276: the partition path that is printed, from
\* the batch end rounded down to its 15-minute mark
PartitionPath(end) ==
    LET batch_end_dt == ToDatetime(end)
        rounded_minute == GridMinutes * (batch_end_dt.minute \div GridMinutes)
        rounded_dt == [batch_end_dt EXCEPT !.minute = rounded_minute,
                                           !.second = 0, !.frac = 0]
    IN  [station       |-> STATION_ID,
         year          |-> Pad(rounded_dt.year, 4),
         month         |-> Pad(rounded_dt.month, 2),
         day           |-> Pad(rounded_dt.day, 2),
         hour          |-> Pad(rounded_dt.hour, 2),
         minute_bucket |-> Pad(rounded_dt.minute, 2)]

\* line 262, (minute(timestamp) / 15) * 15: the SQL `/` of two integers is
\* the floating-point division, so the column is a DOUBLE.  The IEEE-754
\* double product (m / 15) * 15 is m itself for every minute m of 0..59 but
\* 31, where it is the next double above 31 (31.000000000000004).  A
\* double is written here as a whole number and a count of units in the
\* last place above it.
RoundedUpMinutes == {31}
MinuteBucket(minute) ==
    [units |-> minute, ulps |-> IF minute \in RoundedUpMinutes THEN 1 ELSE 0]

\* the text of a DOUBLE in a hive partition directory name: "45.0",
\* "31.000000000000004"
DoubleText(x) ==
    [int  |-> Decimal(x.units),
     frac |-> IF x.ulps = 0 THEN <<0>>
              ELSE <<0, 0, 0, 0, 0, 0, 0, 0, 0, 0, 0, 0, 0, 0, 4>>]

\* the partition columns the COPY query computes for one row, from the
\* row's own timestamp
PartitionColumns(row) ==
    LET ts == row.timestamp
    IN  [station       |-> STATION_ID,
         year          |-> ts.year,
         month         |-> ts.month,
         day           |-> ts.day,
         hour          |-> ts.hour,
         minute_bucket |-> MinuteBucket(ts.minute)]

\* the directory PARTITION_BY writes a row to
PartitionDir(key) ==
    [station       |-> key.station,
     year          |-> Decimal(key.year),
     month         |-> Decimal(key.month),
     day           |-> Decimal(key.day),
     hour          |-> Decimal(key.hour),
     minute_bucket |-> DoubleText(key.minute_bucket)]

\* the partition columns a printed path names, as values of the columns'
\* types
PathColumns(path) ==
    [station       |-> path.station,
     year          |-> DigitsValue(path.year),
     month         |-> DigitsValue(path.month),
     day           |-> DigitsValue(path.day),
     hour          |-> DigitsValue(path.hour),
     minute_bucket |-> [units |-> DigitsValue(path.minute_bucket), ulps |-> 0]]

\* COPY ... TO output_base (PARTITION_BY ..., OVERWRITE_OR_IGNORE,
\* FILENAME_PATTERN 'data_{i}'): every partition of the batch gets the file
\* data_0 holding the batch's rows of that partition, replacing a data_0
\* that is already there; other directories are left alone.  The store
\* maps a partition directory to the rows of its data_0.
CopyPartitioned(files, batch) ==
    LET dirs == {PartitionDir(PartitionColumns(batch[i])) : i \in 1..Len(batch)}
        RowsOf(d) ==
            SelectSeq(batch, LAMBDA r : PartitionDir(PartitionColumns(r)) = d)
    IN  [d \in (DOMAIN files) \cup dirs |->
            IF d \in dirs THEN RowsOf(d) ELSE files[d]]

\* ------------------------------------------------ temperature compensator
\* get_cpu_temperature(): the thermal file holds thousandths of a degree;
\* `file` is Some(content) or None when it cannot be opened or parsed.
\* The result is in thousandths of a degree (int(temp) / 1000.0 degrees).
get_cpu_temperature_zero(file) ==
    IF file = None THEN 0 ELSE file[1]
get_cpu_temperature(file) ==
    IF file = None THEN FallbackCpuMilli ELSE file[1]

\* lines 110-113: the history is seeded with five copies of the first
\* reading; afterwards the oldest entry is dropped and the reading appended
UpdateHistoryGrows(temps, cpu_temp) ==
    IF Len(temps) = 0 THEN [i \in 1..HistoryLen |-> cpu_temp]
    ELSE Append(temps, cpu_temp)
UpdateHistory(temps, cpu_temp) ==
    IF Len(temps) = 0 THEN [i \in 1..HistoryLen |-> cpu_temp]
    ELSE Append(Tail(temps), cpu_temp)

\* compensate_temperature(raw_temp): the value returned and the rolling
\* history afterwards.  Temperatures are in thousandths of a degree; the
\* compensated value raw - ((avg - raw) / factor), with avg = sum / len and
\* factor = FactorNum / FactorDen, is the exact fraction below.  cpu_read
\* lists what get_cpu_temperature() returned to this call, if it was called.
compensate_temperature_always(raw_temp, file, temps, enabled) ==
    LET cpu_temp == get_cpu_temperature(file)
        new_temps == UpdateHistory(temps, cpu_temp)
        n == Len(new_temps)
    IN  [value |-> Frac(raw_temp * n * FactorNum
                          - FactorDen * (SumSeq(new_temps) - n * raw_temp),
                        n * FactorNum),
         cpu_temps |-> new_temps,
         cpu_read  |-> <<cpu_temp>>]
compensate_temperature(raw_temp, file, temps, enabled) ==
    IF ~enabled
    THEN [value |-> Frac(raw_temp, 1), cpu_temps |-> temps, cpu_read |-> <<>>]
    ELSE
      LET cpu_temp == get_cpu_temperature(file)
          new_temps == UpdateHistory(temps, cpu_temp)
          n == Len(new_temps)
      IN  [value |-> Frac(raw_temp * n * FactorNum
                            - FactorDen * (SumSeq(new_temps) - n * raw_temp),
                          n * FactorNum),
           cpu_temps |-> new_temps,
           cpu_read  |-> <<cpu_temp>>]

\* ----------------------------------------------------------- read_sensors
BmeFields == {"temperature", "raw_temperature", "pressure", "humidity"}
GasFields == {"oxidised", "reducing", "nh3"}
LtrFields == {"lux", "proximity"}
PmFields == {"pm1", "pm2_5", "pm10", "particles_03um", "particles_05um",
             "particles_10um", "particles_25um", "particles_50um",
             "particles_100um"}

\* what the hardware returns in one cycle
Sample(k) ==
    [raw_temp  |-> 21000 + 1500 * k,
     pressure  |-> 1000 + k,
     humidity  |-> 40 + k,
     oxidising |-> 20000 + 500 * k,
     reducing  |-> 300000 + 1000 * k,
     nh3       |-> 150000 + 250 * k,
     lux       |-> 100 + k,
     proximity |-> k,
     pm        |-> [f \in PmFields |->
                      CASE f = "pm1" -> 1 + k
                        [] f = "pm2_5" -> 2 + k
                        [] f = "pm10" -> 3 + k
                        [] f = "particles_03um" -> 600 + k
                        [] f = "particles_05um" -> 500 + k
                        [] f = "particles_10um" -> 100 + k
                        [] f = "particles_25um" -> 20 + k
                        [] f = "particles_50um" -> 5 + k
                        [] OTHER -> k]]

\* the read that raises in a cycle, if any.  Of the BME280 reads, "bme280"
\* is get_temperature() (line 139), made before the compensation;
\* get_pressure() and get_humidity() (lines 142-143) are made after it
BmeLate == {"bme280_humidity", "bme280_pressure"}
Failures == {"bme280", "bme280_humidity", "bme280_pressure", "gas", "ltr559",
             "ok", "pms_other", "pms_timeout", "pms_value"}
\* except (ReadTimeoutError, ValueError)
PmsCaught == {"pms_timeout", "pms_value"}

\* lines 173-175: the fields the except clause sets to None
PmNullFieldsShort == {"pm1", "pm2_5", "pm10"}
PmNullFields == PmFields

\* the fields read_sensors() puts in the dict
RowFields(ltr, pms) ==
    {"timestamp"} \cup BmeFields \cup GasFields
        \cup (IF ltr THEN LtrFields ELSE {})
        \cup (IF pms THEN PmFields ELSE {})

\* read_sensors(): `now` is the clock when it is entered, `failing` the read
\* that raises (one that is not made raises nothing).  raised = TRUE when
\* the exception leaves read_sensors; otherwise data is the dict returned.
read_sensors(now, sample, failing, file, temps, enabled, ltr, pms) ==
    LET comp == compensate_temperature(sample.raw_temp, file, temps, enabled)
        raised == \/ failing \in {"bme280", "gas"} \cup BmeLate
                  \/ failing = "ltr559" /\ ltr
                  \/ failing = "pms_other" /\ pms
        pm_failed == pms /\ failing \in PmsCaught
        fields == IF pm_failed
                  THEN (RowFields(ltr, pms) \ PmFields) \cup PmNullFields
                  ELSE RowFields(ltr, pms)
        data == [f \in fields |->
            CASE f = "timestamp" -> ToDatetime(now)
              [] f = "temperature" -> Some(comp.value)
              [] f = "raw_temperature" -> Some(sample.raw_temp)
              [] f = "pressure" -> Some(sample.pressure)
              [] f = "humidity" -> Some(sample.humidity)
              [] f = "oxidised" -> Some(Frac(sample.oxidising, GasScale))
              [] f = "reducing" -> Some(Frac(sample.reducing, GasScale))
              [] f = "nh3" -> Some(Frac(sample.nh3, GasScale))
              [] f = "lux" -> Some(sample.lux)
              [] f = "proximity" -> Some(sample.proximity)
              [] OTHER -> IF pm_failed THEN None ELSE Some(sample.pm[f])]
    IN  [raised    |-> raised,
         data      |-> data,
         cpu_temps |-> IF failing = "bme280" THEN temps ELSE comp.cpu_temps,
         cpu_read  |-> IF failing = "bme280" THEN <<>> ELSE comp.cpu_read,
         pms_read  |-> pms /\ ~(failing \in {"bme280", "gas"} \cup BmeLate)
                           /\ ~(failing = "ltr559" /\ ltr),
         warning   |-> pm_failed]

\* ------------------------------------------------------------------ state
VARIABLES
    BATCH_DURATION,             \* int(os.getenv('BATCH_DURATION', '900'))
    READ_INTERVAL,              \* int(os.getenv('READ_INTERVAL', '5'))
    TEMP_COMPENSATION_ENABLED,
    ltr559_sensor,              \* TRUE when the LTR559 object exists
    pms5003,                    \* TRUE when the PMS5003 object exists
    clock,                      \* the wall clock
    pc,                         \* where main() is
    batch_start,
    next_batch_end,
    batch_data,
    cpu_temps,
    current_time,               \* main()'s local of the current cycle
    time_to_next_batch,         \* main()'s local of the current cycle
    files,                      \* OUTPUT_DIR: partition directory -> data_0
    stdout,                     \* what has been printed
    cause,                      \* the call whose exception ended the process
    \* history, not read by the program
    start_now,                  \* the `now` the first batch was computed from
    window_start,               \* where the current window began
    windows,                    \* windows begun so far
    appended,                   \* rows appended since the last COPY
    flushlog,                   \* one record per COPY that returned
    reading,                    \* the read_sensors() call in progress
    last_read,                  \* the inputs of the last read_sensors() call
    pms_reads,                  \* calls of pms5003.read()
    cpu_seen,                   \* what each get_cpu_temperature() call returned
    last_sleep,                 \* the sleep_time of the last cycle that ended
    cycles, jitters, stalls     \* budget counters of the exploration

cfgvars == <<BATCH_DURATION, READ_INTERVAL, TEMP_COMPENSATION_ENABLED,
             ltr559_sensor, pms5003>>
budgetvars == <<jitters, stalls>>
vars == <<BATCH_DURATION, READ_INTERVAL, TEMP_COMPENSATION_ENABLED,
          ltr559_sensor, pms5003, clock, pc, batch_start, next_batch_end,
          batch_data, cpu_temps, current_time, time_to_next_batch, files,
          stdout, cause, start_now, window_start, windows, appended,
          flushlog, reading, last_read, pms_reads, cpu_seen, last_sleep,
          cycles, jitters, stalls>>

NoRead == [cycle |-> 0]

\* the process has been launched and main() has not run yet
InitWith(starts, durations, intervals, enabled, ltrs, pmss) ==
    /\ BATCH_DURATION \in durations
    /\ READ_INTERVAL \in intervals
    /\ TEMP_COMPENSATION_ENABLED \in enabled
    /\ ltr559_sensor \in ltrs
    /\ pms5003 \in pmss
    /\ clock \in starts
    /\ pc = "boot"
    /\ batch_start = 0
    /\ next_batch_end = 0
    /\ batch_data = <<>>
    /\ cpu_temps = <<>>
    /\ current_time = 0
    /\ time_to_next_batch = 0
    /\ files = <<>>
    /\ stdout = <<>>
    /\ cause = "none"
    /\ start_now = 0
    /\ window_start = 0
    /\ windows = 0
    /\ appended = 0
    /\ flushlog = <<>>
    /\ reading = None
    /\ last_read = NoRead
    /\ pms_reads = 0
    /\ cpu_seen = <<>>
    /\ last_sleep = [cycle |-> 0, sleep_time |-> 0, called |-> FALSE]
    /\ cycles = 0
    /\ jitters = 0
    /\ stalls = 0

\* a delay of d ticks beyond the nominal one: 0, one tick of jitter, or a
\* stall; the budgets bound how often the last two happen in one run
Delayed(d, stall) ==
    IF d = 0 THEN UNCHANGED budgetvars
    ELSE IF d = stall
    THEN stalls < MaxStalls /\ stalls' = stalls + 1 /\ UNCHANGED jitters
    ELSE jitters < MaxJitter /\ jitters' = jitters + 1 /\ UNCHANGED stalls

\* main(), lines 185-201: `now` is read, then batch_start `gap` ticks later
Start(gaps) ==
    /\ pc = "boot"
    /\ \E gap \in gaps :
         /\ start_now' = clock
         /\ batch_start' = clock + gap
         /\ clock' = clock + gap
         /\ next_batch_end' = clock + gap
              + FirstBatchDuration(clock, BATCH_DURATION) * TicksPerSec
         /\ window_start' = clock + gap
    /\ windows' = 1
    /\ pc' = "read"
    /\ UNCHANGED <<cfgvars, batch_data, cpu_temps, current_time,
                   time_to_next_batch, files, stdout, cause, appended,
                   flushlog, reading, last_read, pms_reads, cpu_seen, last_sleep,
                   cycles, budgetvars>>

\* line 206: batch_data.append(sensor_data)
AppendReadingDrops(batch, sensor_data) == batch
AppendReading(batch, sensor_data) == Append(batch, sensor_data)

\* line 205, lines 133-141 of read_sensors(): the timestamp is taken,
\* get_temperature() is called and the value compensated, which reads the
\* CPU temperature and updates cpu_temps.  An exception of
\* get_temperature() leaves read_sensors() and main() and ends the
\* process.  At most `limit` cycles are explored.
TemperatureStep(samples, failures, cpufiles, limit) ==
    /\ pc = "read"
    /\ cycles < limit
    /\ \E k \in samples, failing \in failures, file \in cpufiles :
         /\ failing = "ltr559" => ltr559_sensor
         /\ failing \in {"pms_timeout", "pms_value", "pms_other"} => pms5003
         /\ LET r == read_sensors(clock, Sample(k), failing, file, cpu_temps,
                        TEMP_COMPENSATION_ENABLED, ltr559_sensor, pms5003)
            IN  /\ cpu_temps' = r.cpu_temps
                /\ cpu_seen' = cpu_seen \o r.cpu_read
                /\ last_read' = [cycle |-> cycles + 1, at |-> clock,
                                 sample |-> Sample(k), failing |-> failing,
                                 file |-> file, raised |-> r.raised]
                /\ IF failing = "bme280"
                   THEN /\ pc' = "crashed"
                        /\ cause' = failing
                        /\ UNCHANGED reading
                   ELSE /\ pc' = "sensors"
                        /\ reading' = Some(r)
                        /\ UNCHANGED cause
    /\ cycles' = cycles + 1
    /\ UNCHANGED <<cfgvars, clock, batch_start, next_batch_end, batch_data,
                   current_time, time_to_next_batch, files, stdout,
                   start_now, window_start, windows, appended, flushlog,
                   pms_reads, last_sleep, budgetvars>>

\* lines 142-158 of read_sensors(): the pressure, the humidity, the gas and
\* the light sensor are read and pms5003.read() is called.  An exception of
\* one of the reads before it leaves read_sensors() and main() and ends the
\* process.
SensorsStep ==
    /\ pc = "sensors"
    /\ LET r == reading[1]
       IN  IF r.raised /\ last_read.failing # "pms_other"
           THEN /\ pc' = "crashed"
                /\ cause' = last_read.failing
                /\ reading' = None
                /\ UNCHANGED pms_reads
           ELSE /\ pc' = "pms"
                /\ pms_reads' = pms_reads + (IF r.pms_read THEN 1 ELSE 0)
                /\ UNCHANGED <<cause, reading>>
    /\ UNCHANGED <<cfgvars, clock, batch_start, next_batch_end, batch_data,
                   cpu_temps, current_time, time_to_next_batch, files, stdout,
                   start_now, window_start, windows, appended, flushlog,
                   last_read, cpu_seen, last_sleep, cycles, budgetvars>>

\* lines 158-176 of read_sensors(): pms5003.read() returns or raises after
\* d ticks, d in `delays` (d = `stall` is a read that blocks); a
\* ReadTimeoutError or ValueError is caught and the warning printed, any
\* other exception leaves read_sensors() and main() and ends the process.
PmsStep(delays, stall) ==
    /\ pc = "pms"
    /\ \E d \in delays :
         /\ Delayed(d, stall)
         /\ clock' = clock + d
    /\ LET r == reading[1]
       IN  /\ stdout' = IF r.warning
                        THEN Append(stdout, [kind |-> "pms_warning"])
                        ELSE stdout
           /\ IF r.raised
              THEN /\ pc' = "crashed"
                   /\ cause' = last_read.failing
                   /\ reading' = None
              ELSE /\ pc' = "append"
                   /\ UNCHANGED <<cause, reading>>
    /\ UNCHANGED <<cfgvars, batch_start, next_batch_end, batch_data,
                   cpu_temps, current_time, time_to_next_batch, files,
                   start_now, window_start, windows, appended, flushlog,
                   last_read, pms_reads, cpu_seen, last_sleep, cycles>>

\* line 178 of read_sensors() and line 206: the dict is returned and
\* appended to batch_data
AppendStep ==
    /\ pc = "append"
    /\ batch_data' = AppendReading(batch_data, reading[1].data)
    /\ appended' = appended + 1
    /\ reading' = None
    /\ pc' = "check"
    /\ UNCHANGED <<cfgvars, clock, batch_start, next_batch_end, cpu_temps,
                   current_time, time_to_next_batch, files, stdout, cause,
                   start_now, window_start, windows, flushlog, last_read,
                   pms_reads, cpu_seen, last_sleep, cycles, budgetvars>>

\* lines 208-212: the clock is read and the flush decision taken
CheckStep ==
    /\ pc = "check"
    /\ current_time' = clock
    /\ time_to_next_batch' = TimeToNextBatch(next_batch_end, clock)
    /\ pc' = IF FlushDue(clock, next_batch_end) THEN "write" ELSE "sleep"
    /\ UNCHANGED <<cfgvars, clock, batch_start, next_batch_end, batch_data,
                   cpu_temps, files, stdout, cause, start_now, window_start,
                   windows, appended, flushlog, reading, last_read, pms_reads,
                   cpu_seen, last_sleep, cycles, budgetvars>>

\* lines 213-273: the path components are computed and con.execute() runs
\* the COPY over batch_data, which takes d ticks.  An exception of the
\* writer is not caught by main() and ends the process: OnWriterError is
\* where main() is after it.
OnWriterErrorGoesOn == "advance"
OnWriterError == "crashed"

WriteStep(results, delays) ==
    /\ pc = "write"
    /\ \E d \in delays :
         /\ Delayed(d, -1)
         /\ clock' = clock + d
    /\ \E ok \in results :
         IF ok
         THEN /\ files' = CopyPartitioned(files, batch_data)
              /\ flushlog' = Append(flushlog,
                    [cycle        |-> cycles,
                     window_start |-> window_start,
                     window_end   |-> next_batch_end,
                     now          |-> current_time,
                     rows         |-> batch_data,
                     appended     |-> appended,
                     dirs         |-> {PartitionDir(PartitionColumns(batch_data[i])) :
                                          i \in 1..Len(batch_data)}])
              /\ appended' = 0
              /\ pc' = "report"
              /\ UNCHANGED cause
         ELSE /\ pc' = OnWriterError
              /\ cause' = "write"
              /\ UNCHANGED <<files, flushlog, appended>>
    /\ UNCHANGED <<cfgvars, batch_start, next_batch_end, batch_data,
                   cpu_temps, current_time, time_to_next_batch, stdout,
                   start_now, window_start, windows, reading, last_read, pms_reads,
                   cpu_seen, last_sleep, cycles>>

\* line 283: batch_data = []
ResetBatchKeeps(batch) == batch
ResetBatch(batch) == <<>>

\* lines 275-277: the count and the path are printed
ReportStep ==
    /\ pc = "report"
    /\ stdout' = Append(stdout, [kind    |-> "wrote",
                                 records |-> Len(batch_data),
                                 path    |-> PartitionPath(next_batch_end)])
    /\ pc' = "advance"
    /\ UNCHANGED <<cfgvars, clock, batch_start, next_batch_end, batch_data,
                   cpu_temps, current_time, time_to_next_batch, files, cause,
                   start_now, window_start, windows, appended, flushlog,
                   reading, last_read, pms_reads, cpu_seen, last_sleep,
                   cycles, budgetvars>>

\* lines 280-296: the connection is closed, the batch is reset and the
\* batch end moved
AdvanceStep ==
    /\ pc = "advance"
    /\ batch_data' = ResetBatch(batch_data)
    /\ next_batch_end' = AdvanceWindow(next_batch_end, BATCH_DURATION)
    /\ window_start' = next_batch_end
    /\ windows' = windows + 1
    /\ pc' = "sleep"
    /\ UNCHANGED <<cfgvars, clock, batch_start, cpu_temps, current_time,
                   time_to_next_batch, files, stdout, cause, start_now,
                   appended, flushlog, reading, last_read, pms_reads,
                   cpu_seen, last_sleep, cycles, budgetvars>>

\* lines 298-301: sleep_time is computed from the time_to_next_batch of
\* line 209; time.sleep() returns `over` ticks after the requested time
SleepStep(overs) ==
    /\ pc = "sleep"
    /\ LET sleep_time == SleepTime(READ_INTERVAL, time_to_next_batch)
       IN  /\ last_sleep' = [cycle |-> cycles, sleep_time |-> sleep_time,
                              called |-> sleep_time > 0]
           /\ IF sleep_time > 0
              THEN \E over \in overs :
                     /\ Delayed(over, -1)
                     /\ clock' = clock + sleep_time + over
              ELSE UNCHANGED <<clock, budgetvars>>
    /\ pc' = "read"
    /\ UNCHANGED <<cfgvars, batch_start, next_batch_end, batch_data,
                   cpu_temps, current_time, time_to_next_batch, files, stdout,
                   cause, start_now, window_start, windows, appended,
                   flushlog, reading, last_read, pms_reads, cpu_seen, cycles>>

\* lines 303-306: KeyboardInterrupt anywhere inside the try block
Interrupt ==
    /\ pc \in {"advance", "append", "check", "pms", "read", "report",
              "sensors", "sleep", "write"}
    /\ stdout' = Append(stdout, [kind |-> "stopping"])
                   \o (IF batch_data # <<>>
                       THEN <<[kind |-> "not_written",
                               records |-> Len(batch_data)]>>
                       ELSE <<>>)
    /\ pc' = "stopped"
    /\ UNCHANGED <<cfgvars, clock, batch_start, next_batch_end, batch_data,
                   cpu_temps, current_time, time_to_next_batch, files, cause,
                   start_now, window_start, windows, appended, flushlog,
                   reading, last_read, pms_reads, cpu_seen, last_sleep, cycles,
                   budgetvars>>

\* ------------------------------------------- the runs that are explored
At(h, m, s) == ((h * 60 + m) * 60 + s) * TicksPerSec
LastTick == TicksPerSec - 1

\* process starts: inside a window, one second before a boundary and on a
\* boundary, each with and without a sub-second part
StartInstants ==
    {At(23, 37, 30), At(23, 37, 30) + 1,
     At(23, 44, 59) + LastTick,
     At(23, 45, 0), At(23, 45, 0) + 1}
StallTicks == StallSeconds * TicksPerSec

\* the reads that raise out of read_sensors()
Raising == {"bme280", "bme280_humidity", "bme280_pressure", "gas", "ltr559",
            "pms_other"}
\* every read succeeds, or one of them raises out of read_sensors()
OkOrRaising == {"ok"} \cup Raising

\* Spec: the scheduling.  Every start instant, both batch durations, reads
\* and sleeps that run long or stall, a writer that can fail; the sensors
\* return one sample and either all succeed or one raises.
Init ==
    InitWith(StartInstants, {600, 900}, {450}, {TRUE}, {TRUE}, {TRUE})

Next ==
    \/ Start({0, 1})
    \/ TemperatureStep({1}, OkOrRaising, {Some(50000)}, MaxCycles)
    \/ SensorsStep
    \/ PmsStep({0, 1, StallTicks}, StallTicks)
    \/ AppendStep
    \/ CheckStep
    \/ WriteStep({FALSE, TRUE}, {0, 1})
    \/ ReportStep
    \/ AdvanceStep
    \/ SleepStep({0, 1})
    \/ Interrupt

Spec == Init /\ [][Next]_vars

\* SpecSensors: the reading cycle.  One start instant and exact timing;
\* every sensor configuration, two samples, a readable and an unreadable
\* thermal file, and every read failure.
InitSensors ==
    InitWith({At(23, 37, 30)}, {900}, {450}, BOOLEAN, BOOLEAN, BOOLEAN)

NextSensors ==
    \/ Start({0})
    \/ TemperatureStep({1, 2}, Failures, {None, Some(50000)},
                       MaxSensorCycles)
    \/ SensorsStep
    \/ PmsStep({0}, -1)
    \/ AppendStep
    \/ CheckStep
    \/ WriteStep({TRUE}, {0})
    \/ ReportStep
    \/ AdvanceStep
    \/ SleepStep({0})
    \/ Interrupt

SpecSensors == InitSensors /\ [][NextSensors]_vars

\* SpecHistory: the rolling CPU history.  Compensation is on, the timing is
\* exact, the thermal file reads 50.0 or 52.0 degrees and the sensors
\* return one of two samples, over enough cycles to roll the history.
InitHistory ==
    InitWith({At(23, 37, 30)}, {900}, {450}, {TRUE}, {TRUE}, {TRUE})

NextHistory ==
    \/ Start({0})
    \/ TemperatureStep({1, 2}, {"ok"}, {Some(50000), Some(52000)},
                       MaxHistoryCycles)
    \/ SensorsStep
    \/ PmsStep({0}, -1)
    \/ AppendStep
    \/ CheckStep
    \/ WriteStep({TRUE}, {0})
    \/ ReportStep
    \/ AdvanceStep
    \/ SleepStep({0})
    \/ Interrupt

SpecHistory == InitHistory /\ [][NextHistory]_vars

\* SpecLive: the loop left to run.  Every sensor read returns and the
\* process is not interrupted; reads run long or stall, sleeps run long and
\* the writer can fail.  The loop is one thread whose every step (a read,
\* the clock reading, the writer call, a sleep) returns, so a step that is
\* possible is eventually taken.
InitLive ==
    InitWith({At(23, 37, 30), At(23, 44, 59) + LastTick, At(23, 45, 0) + 1},
             {900}, {450}, {TRUE}, {TRUE}, {TRUE})

NextLive ==
    \/ Start({0})
    \/ TemperatureStep({1}, {"ok"}, {Some(50000)}, MaxLiveCycles)
    \/ SensorsStep
    \/ PmsStep({0, 1, StallTicks}, StallTicks)
    \/ AppendStep
    \/ CheckStep
    \/ WriteStep({FALSE, TRUE}, {0})
    \/ ReportStep
    \/ AdvanceStep
    \/ SleepStep({0, 1})

SpecLive == InitLive /\ [][NextLive]_vars /\ WF_vars(NextLive)

\* ================================================================ claims
Last(q) == q[Len(q)]
RowTime(row) == FromDatetime(row.timestamp)
Wrote == SelectSeq(stdout, LAMBDA e : e.kind = "wrote")
\* the end of the first window
FirstEnd == IF windows = 1 THEN next_batch_end ELSE flushlog[1].window_end
\* an instant exactly on a 15-minute mark, as the claims mean it: minute in
\* {0,15,30,45}, second 0 and no sub-second part.  (The program's own test
\* is OnGridSeconds.)
OnGrid(t) == t % GridTicks = 0
\* the first 15-minute mark strictly after t
NextMarkAfter(t) == (t \div GridTicks + 1) * GridTicks

\* C1: at every flush the number of rows handed to the writer equals the
\* number of rows appended to the accumulator since the previous flush (or
\* since the start, for the first flush).
C1_FlushHandsTheRowsAppended ==
    \A i \in 1..Len(flushlog) :
        Len(flushlog[i].rows) = flushlog[i].appended

\* a second flush has handed over the rows appended after the first one
C1_Witness ==
    /\ Len(flushlog) >= 2
    /\ flushlog[1].appended >= 2
    /\ flushlog[2].appended >= 2

\* C2: at every flush the window end used for the partition key is exactly
\* on the 15-minute grid: minute in {0,15,30,45}, second 0, no fraction.
C2_WindowEndOnGrid ==
    \A i \in 1..Len(flushlog) : OnGrid(flushlog[i].window_end)

\* C3: every row of a flushed batch has window_start <= timestamp <
\* window_end of the window that is flushed.
C3_RowsInsideWindow ==
    \A i \in 1..Len(flushlog) :
        \A j \in 1..Len(flushlog[i].rows) :
            /\ flushlog[i].window_start <= RowTime(flushlog[i].rows[j])
            /\ RowTime(flushlog[i].rows[j]) < flushlog[i].window_end

\* C4: on every flush all rows of the batch are persisted under the one
\* partition key derived from the scheduled window end, which is the
\* destination that is printed.
C4_RowsUnderThePrintedKey ==
    \A i \in 1..Len(Wrote) :
        /\ Wrote[i].path = PartitionPath(flushlog[i].window_end)
        /\ \A j \in 1..Len(flushlog[i].rows) :
              PartitionColumns(flushlog[i].rows[j]) = PathColumns(Wrote[i].path)

\* C5: the first window ends exactly on the first 15-minute mark strictly
\* after the start, except that a start exactly on a mark gives a first
\* window of BATCH_DURATION.
C5_FirstWindowEndsOnNextMark ==
    windows >= 1 =>
        IF OnGrid(start_now)
        THEN FirstEnd - batch_start = BATCH_DURATION * TicksPerSec
        ELSE FirstEnd = NextMarkAfter(start_now)

\* C6: the first window is no longer than BATCH_DURATION and its end is on
\* the grid.
C6_FirstWindowShortAndAligned ==
    windows >= 1 =>
        /\ FirstEnd - batch_start <= BATCH_DURATION * TicksPerSec
        /\ OnGrid(FirstEnd)

\* C7: for every window after the first, its end is exactly BATCH_DURATION
\* after the previous end and is on the 15-minute grid.
C7_LaterWindowsNominalAndAligned ==
    windows >= 2 =>
        /\ next_batch_end - window_start = BATCH_DURATION * TicksPerSec
        /\ OnGrid(next_batch_end)

\* the window end the scheduler moves to from `end`: the first instant at
\* or after end + BATCH_DURATION whose minute is a multiple of 15 and whose
\* second is 0, with the sub-second part of `end`
NextAlignedEnd(end, batch_duration) ==
    LET e1 == end + batch_duration * TicksPerSec
    IN  IF OnGridSeconds(e1) THEN e1
        ELSE NextMarkAfter(e1) + (e1 % TicksPerSec)

\* the window that is current was already over when the last flush ran
Overdue ==
    /\ flushlog # <<>>
    /\ windows = Len(flushlog) + 1
    /\ Last(flushlog).now >= next_batch_end

\* C8 as stated: after a stall past more than one window end the missed
\* windows get no flush of their own, that is, no flush is for a window
\* that had already ended when the flush before it ran.
C8_NoCatchUpFlush ==
    \A i \in 1..(Len(flushlog) - 1) :
        flushlog[i + 1].window_end > flushlog[i].now

\* C8 amended: a cycle flushes at most once and each flush moves the window
\* once, to the next aligned end; a window that is already over when the
\* flush before it ran is flushed by the very next cycle, which is reached
\* without sleeping, and its batch is the one row of that cycle.
C8_MissedWindowsFlushedOnePerCycle ==
    /\ \A i \in 1..(Len(flushlog) - 1) :
          /\ flushlog[i + 1].cycle > flushlog[i].cycle
          /\ flushlog[i + 1].window_end =
                NextAlignedEnd(flushlog[i].window_end, BATCH_DURATION)
          /\ flushlog[i].now >= flushlog[i + 1].window_end =>
                /\ flushlog[i + 1].cycle = flushlog[i].cycle + 1
                /\ Len(flushlog[i + 1].rows) = 1
                /\ RowTime(flushlog[i + 1].rows[1]) >= flushlog[i].now
    /\ (Overdue /\ pc \in {"read", "sleep"}) => cycles = Last(flushlog).cycle
    /\ (Overdue /\ pc = "read") =>
          /\ last_sleep.cycle = Last(flushlog).cycle
          /\ last_sleep.sleep_time = 0

\* two windows were flushed by consecutive cycles after a stall
C8_Witness ==
    /\ Len(flushlog) >= 2
    /\ flushlog[1].now >= flushlog[2].window_end
    /\ flushlog[2].cycle = flushlog[1].cycle + 1
    /\ Len(flushlog[1].rows) >= 2

\* the fields of the sensor whose read failed
FieldsOf(failing) ==
    CASE failing \in {"bme280"} \cup BmeLate -> BmeFields
      [] failing = "gas" -> GasFields
      [] failing = "ltr559" -> LtrFields
      [] OTHER -> PmFields

\* C9: a read failure of any of the four sensors leaves the process
\* running, and the row of that cycle is appended with that sensor's fields
\* null.
C9_ReadFailureGivesNullFields ==
    (last_read.cycle > 0 /\ last_read.failing # "ok") =>
        /\ ~last_read.raised
        /\ pc # "crashed"
        /\ pc = "check" =>
              /\ Last(batch_data).timestamp = ToDatetime(last_read.at)
              /\ \A f \in FieldsOf(last_read.failing) :
                    /\ f \in DOMAIN Last(batch_data)
                    /\ Last(batch_data)[f] = None

\* the compensated temperature of a raw reading under the history `temps`:
\* raw - (mean(temps) - raw) / (FactorNum / FactorDen), or raw itself
ExpectedTemperature(raw, temps, enabled) ==
    IF enabled
    THEN Frac(FactorNum * Len(temps) * raw
                - FactorDen * (SumSeq(temps) - Len(temps) * raw),
              FactorNum * Len(temps))
    ELSE Frac(raw, 1)

\* C10: when the particulate read raises a timeout or a value error, the
\* row of that cycle has the nine particulate fields null and every other
\* field at the value read in that cycle, the row is appended, and the
\* particulate sensor is read in every cycle, so also in the next one.
C10_PmsFailureNullsOnlyParticulates ==
    /\ (last_read.cycle > 0 /\ last_read.failing \in PmsCaught) =>
          /\ ~last_read.raised
          /\ pc # "crashed"
          /\ pc = "check" =>
               LET row == Last(batch_data)
                   smp == last_read.sample
               IN  /\ DOMAIN row = RowFields(ltr559_sensor, pms5003)
                   /\ \A f \in PmFields : row[f] = None
                   /\ row.timestamp = ToDatetime(last_read.at)
                   /\ row.temperature # None
                   /\ FracEq(row.temperature[1],
                             ExpectedTemperature(smp.raw_temp, cpu_temps,
                                                 TEMP_COMPENSATION_ENABLED))
                   /\ row.raw_temperature = Some(smp.raw_temp)
                   /\ row.pressure = Some(smp.pressure)
                   /\ row.humidity = Some(smp.humidity)
                   /\ row.oxidised = Some(Frac(smp.oxidising, 1000))
                   /\ row.reducing = Some(Frac(smp.reducing, 1000))
                   /\ row.nh3 = Some(Frac(smp.nh3, 1000))
                   /\ ltr559_sensor =>
                         /\ row.lux = Some(smp.lux)
                         /\ row.proximity = Some(smp.proximity)
    /\ (pms5003 /\ pc # "boot") =>
          /\ pms_reads \in {cycles - 1, cycles}
          /\ pms_reads = cycles - 1 <=>
                \/ pc = "sensors"
                \/ pc = "stopped" /\ reading # None /\ pms_reads # cycles
                \/ pc = "crashed" /\ cause \notin {"pms_other", "write"}

\* the particulate read failed in two cycles in a row: the second row has
\* its particulate fields null and the other values of its own cycle
C10_Witness ==
    /\ pc = "check"
    /\ last_read.cycle = 2
    /\ last_read.failing = "pms_timeout"
    /\ Len(batch_data) = 2
    /\ batch_data[1]["pm1"] = None
    /\ batch_data[2]["pm10"] = None
    /\ batch_data[2].pressure # batch_data[1].pressure
    /\ pms_reads = 2

\* C11: when the loop is interrupted at any point of a cycle (during a
\* read, a sleep or a flush) the process stops without an error, nothing is
\* written for the partial window, and the warning names a count equal to
\* the number of accumulated rows that no completed write has received.
C11_InterruptWarnsOfUnwrittenRows ==
    pc = "stopped" =>
       /\ cause = "none"
       /\ \A d \in DOMAIN files : \E i \in 1..Len(flushlog) :
             d \in flushlog[i].dirs
       /\ appended > 0 => Last(stdout).kind = "not_written"
       /\ \A i \in 1..Len(stdout) :
             stdout[i].kind = "not_written" => stdout[i].records = appended

\* C12: a storage write failure during a flush is reported and does not end
\* the main loop: after the writer has raised, main() is still in its loop
\* and goes on to the next window.
C12_WriteFailureLeavesLoopRunning ==
    cause = "write" =>
        pc \in {"read", "sensors", "pms", "append", "check", "write",
                "report", "advance", "sleep"}

\* the rows the accumulator holds and the rows it has handed to the writer
RowsSoFar ==
    {batch_data[i] : i \in 1..Len(batch_data)}
      \cup UNION {{flushlog[i].rows[j] : j \in 1..Len(flushlog[i].rows)} :
                     i \in 1..Len(flushlog)}

\* C14: with TEMP_COMPENSATION_ENABLED false compensate_temperature(x)
\* returns x for every x, the history cpu_temps stays empty over any number
\* of calls, and the CPU temperature is not read.
C14_DisabledCompensationIsIdentity ==
    ~TEMP_COMPENSATION_ENABLED =>
       /\ cpu_temps = <<>>
       /\ cpu_seen = <<>>
       /\ \A row \in RowsSoFar :
             /\ row.temperature # None
             /\ FracEq(row.temperature[1], Frac(row.raw_temperature[1], 1))

\* compensation is off and three readings of two different raw values have
\* been taken
C14_Witness ==
    /\ ~TEMP_COMPENSATION_ENABLED
    /\ pc = "check"
    /\ cycles = 3
    /\ Cardinality(RowsSoFar) = 3
    /\ \E r1, r2 \in RowsSoFar : r1.raw_temperature # r2.raw_temperature
    /\ cpu_temps = <<>>

\* the history after the readings `seen`, the first of them standing in for
\* the entries that no reading has replaced yet
ExpectedHistory(seen) ==
    [i \in 1..5 |-> seen[Max(1, Len(seen) - 5 + i)]]

\* C15: with compensation enabled the history has exactly 5 entries after
\* every call: the first call seeds it with 5 copies of its reading, every
\* later call drops the oldest entry and appends the new reading, and the
\* value returned is raw - (mean(history) - raw) / factor over the updated
\* history; after the readings 50, 50, 50, 50, 50, 52 the sixth call
\* computes with the history 50, 50, 50, 50, 52.
C15_HistoryKeepsLastFive ==
    (TEMP_COMPENSATION_ENABLED /\ cpu_seen # <<>>) =>
       /\ Len(cpu_temps) = 5
       /\ cpu_temps = ExpectedHistory(cpu_seen)
       /\ Len(cpu_seen) = 1 =>
             cpu_temps = <<cpu_seen[1], cpu_seen[1], cpu_seen[1],
                           cpu_seen[1], cpu_seen[1]>>
       /\ cpu_seen = <<50000, 50000, 50000, 50000, 50000, 52000>> =>
             cpu_temps = <<50000, 50000, 50000, 50000, 52000>>
       /\ pc = "check" =>
             /\ Len(cpu_seen) = cycles
             /\ FracEq(Last(batch_data).temperature[1],
                       ExpectedTemperature(last_read.sample.raw_temp,
                                           ExpectedHistory(cpu_seen), TRUE))
             /\ (/\ cpu_seen = <<50000, 50000, 50000, 50000, 50000, 52000>>
                 /\ last_read.sample.raw_temp = 22500) =>
                   FracEq(Last(batch_data).temperature[1], Frac(10100, 1))

\* the sixth call has read 52 after five readings of 50
C15_Witness ==
    /\ TEMP_COMPENSATION_ENABLED
    /\ pc = "check"
    /\ cpu_seen = <<50000, 50000, 50000, 50000, 50000, 52000>>
    /\ cpu_temps = <<50000, 50000, 50000, 50000, 52000>>
    /\ last_read.sample.raw_temp = 22500

\* C16: when the CPU temperature file cannot be read or parsed, 40.0 is
\* that cycle's CPU reading, the history is updated with it exactly as with
\* a reading from the file, and the compensation returns a value, so that
\* the cycle is not aborted by it.
C16_UnreadableCpuFileUsesFallback ==
    (/\ TEMP_COMPENSATION_ENABLED
     /\ last_read.cycle > 0
     /\ last_read.file = None
     /\ last_read.failing # "bme280") =>
       /\ Last(cpu_seen) = 40000
       /\ Last(cpu_temps) = 40000
       /\ cpu_temps = ExpectedHistory(cpu_seen)
       /\ last_read.failing \in {"ok"} \cup PmsCaught =>
             /\ ~last_read.raised
             /\ pc # "crashed"
       /\ pc = "check" =>
             /\ RowTime(Last(batch_data)) = last_read.at
             /\ FracEq(Last(batch_data).temperature[1],
                       ExpectedTemperature(last_read.sample.raw_temp,
                                           ExpectedHistory(cpu_seen), TRUE))

\* the file was readable in the first cycle and unreadable in the second
C16_Witness ==
    /\ TEMP_COMPENSATION_ENABLED
    /\ pc = "check"
    /\ last_read.file = None
    /\ cpu_seen = <<50000, 40000>>
    /\ cpu_temps = <<50000, 50000, 50000, 50000, 40000>>
    /\ Len(batch_data) = 2

\* the cycle that is current has flushed
FlushedThisCycle == flushlog # <<>> /\ Last(flushlog).cycle = cycles

\* C17: in every cycle without a flush the loop sleeps for
\* min(READ_INTERVAL, window_end - now) floored at zero, and the sleep asked
\* for does not reach past window_end; time.sleep() is never called with a
\* negative duration.
C17_SleepIsBoundedByWindowEnd ==
    (cycles > 0 /\ last_sleep.cycle = cycles) =>
       /\ last_sleep.sleep_time >= 0
       /\ last_sleep.called => last_sleep.sleep_time > 0
       /\ ~FlushedThisCycle =>
             /\ last_sleep.sleep_time =
                   Max(0, Min(READ_INTERVAL * TicksPerSec,
                              next_batch_end - current_time))
             /\ last_sleep.called
             /\ current_time + last_sleep.sleep_time <= next_batch_end
             /\ clock >= current_time + last_sleep.sleep_time

\* a cycle without a flush has slept less than READ_INTERVAL, up to the
\* end of the window
C17_Witness ==
    /\ pc = "read"
    /\ cycles > 0
    /\ last_sleep.cycle = cycles
    /\ ~FlushedThisCycle
    /\ last_sleep.called
    /\ last_sleep.sleep_time < READ_INTERVAL * TicksPerSec
    /\ current_time + last_sleep.sleep_time = next_batch_end

\* C18: the steady advance computes previous_end + BATCH_DURATION and
\* re-validates it against the grid: a value on a grid mark is left
\* unchanged, a value off the grid is moved forward to the next grid mark,
\* and the result is never smaller than previous_end + BATCH_DURATION.
C18_AdvanceRevalidatesAgainstGrid ==
    windows >= 2 =>
       LET new_end == window_start + BATCH_DURATION * TicksPerSec
       IN  /\ OnGrid(new_end) => next_batch_end = new_end
           /\ ~OnGrid(new_end) => next_batch_end = NextMarkAfter(new_end)
           /\ next_batch_end >= new_end

\* C19: within a flush the accumulator is cleared and the window advanced
\* only after the writer call has returned: rows leave the accumulator only
\* all together, in the cycle and for the window of a write that returned
\* and received exactly those rows, and in the same step the window moves;
\* when the writer raises the process stops with the rows still in the
\* accumulator.
C19_ClearedOnlyAfterCompletedWrite ==
    [][/\ (batch_data' # batch_data /\ pc' # "check") =>
             /\ pc = "advance"
             /\ batch_data' = <<>>
             /\ flushlog # <<>>
             /\ Last(flushlog).rows = batch_data
             /\ Last(flushlog).cycle = cycles
             /\ Last(flushlog).window_end = next_batch_end
             /\ appended = 0
             /\ next_batch_end' # next_batch_end
       /\ (next_batch_end' # next_batch_end /\ pc # "boot") =>
             /\ batch_data' = <<>>
             /\ Last(flushlog).rows = batch_data
       /\ cause' = "write" =>
             /\ pc' = "crashed"
             /\ batch_data' = batch_data
             /\ next_batch_end' = next_batch_end
             /\ flushlog' = flushlog]_vars

\* a flush has completed: its rows were written, the accumulator is empty
\* and the loop goes on with the next window
C19_Witness ==
    /\ pc = "sleep"
    /\ FlushedThisCycle
    /\ Len(Last(flushlog).rows) >= 2
    /\ batch_data = <<>>
    /\ window_start = Last(flushlog).window_end

\* the cycles explored reach past the end of the current window: a cycle
\* moves the clock by READ_INTERVAL or up to the window end, and one more
\* cycle takes the reading that finds the window over
HorizonCovers ==
    cycles + (Max(0, next_batch_end - clock) \div (READ_INTERVAL * TicksPerSec))
        + 2 <= MaxLiveCycles

\* the flush of the current window is being performed: the flush branch
\* has been entered and the writer is about to be called.  The window
\* changes only at the end of a flush, so the first flush after a state is
\* the flush of the window of that state.
FlushPerformed == pc = "write"

\* a flush is performed in exactly the cycles whose clock reading, taken
\* after the sensor read, is at or past the window end
FlushesWhenDue ==
    /\ pc \in {"write", "report", "advance"} =>
          /\ last_read.cycle = cycles
          /\ current_time >= last_read.at
          /\ current_time >= (IF pc = "write" THEN next_batch_end
                              ELSE Last(flushlog).window_end)
    /\ (pc = "sleep" /\ ~FlushedThisCycle) =>
          /\ current_time >= last_read.at
          /\ current_time < next_batch_end
    /\ \A i \in 1..Len(flushlog) : flushlog[i].now >= flushlog[i].window_end
    /\ FlushedThisCycle => Last(flushlog).now = current_time

\* C20: in every cycle whose clock reading taken after the sensor read
\* satisfies now >= window_end a flush is performed in that same cycle, and
\* in no cycle with now < window_end; and when the sensor reads and the
\* sleeps return and the clock advances, every window end is eventually
\* followed by the flush of that window.
C20_FlushWhenDueAndEventually ==
    /\ []FlushesWhenDue
    /\ (pc = "read" /\ HorizonCovers) ~> FlushPerformed

\* the second window has been flushed by the cycle whose reading fell
\* exactly on its end, after a cycle that found it still open
C20_Witness ==
    /\ pc = "sleep"
    /\ Len(flushlog) = 2
    /\ FlushedThisCycle
    /\ Last(flushlog).now = Last(flushlog).window_end
    /\ Len(Last(flushlog).rows) >= 2

\* the rows that the store holds
StoredRows ==
    UNION {{files[d][k] : k \in 1..Len(files[d])} : d \in DOMAIN files}

\* C21: a later write to the same partition directory replaces the file of
\* the earlier one, and the sets of partition keys written by two different
\* flushes are disjoint, so that every row persisted by a flush is still in
\* the store after every later flush.
C21_FlushesWriteDisjointKeys ==
    /\ \A i, j \in 1..Len(flushlog) :
          i < j => flushlog[i].dirs \cap flushlog[j].dirs = {}
    /\ \A i \in 1..Len(flushlog) : \A k \in 1..Len(flushlog[i].rows) :
          flushlog[i].rows[k] \in StoredRows

\* the rows handed to the writer by the flushes so far
RowsFlushed ==
    SumSeq([i \in 1..Len(flushlog) |-> Len(flushlog[i].rows)])

\* C22: at every flush the batch handed to the writer holds at least one
\* row: each cycle appends exactly one row, the one it has just read, before
\* the flush test, so the writer is never called with zero rows, also in a
\* cycle that follows a flush at once.
C22_EveryFlushHasARow ==
    /\ \A i \in 1..Len(flushlog) : Len(flushlog[i].rows) >= 1
    /\ pc \in {"check", "write"} =>
          /\ Len(batch_data) >= 1
          /\ appended >= 1
          /\ last_read.cycle = cycles
          /\ RowTime(batch_data[Len(batch_data)]) = last_read.at
    /\ pc \in {"read", "check", "write", "sleep", "crashed"} =>
          RowsFlushed + Len(batch_data) = cycles

\* a cycle that followed a flush without sleeping has flushed in its turn,
\* with the one row it had read
C22_Witness ==
    /\ pc = "sleep"
    /\ Len(flushlog) >= 2
    /\ FlushedThisCycle
    /\ flushlog[Len(flushlog) - 1].cycle = cycles - 1
    /\ Len(Last(flushlog).rows) = 1
    /\ batch_data = <<>>
====
